---- MODULE Spec2Model ----
(***************************************************************************)
(* State-machine model of the paper-trading decision engine:               *)
(*   DCAStrategy (src/strategy/dca_strategy.py),                           *)
(*   StrategyManager (src/strategy/strategy_manager.py),                   *)
(*   the paper broker (src/broker/paper_broker.py),                        *)
(*   the live tick run_once (src/main.py) and                              *)
(*   the backtest replayer (src/backtest/engine.py).                       *)
(*                                                                         *)
(* Numbers.  The program computes in floats; the model computes in exact   *)
(* integers.  USD amounts and prices are whole dollars.  BTC quantities    *)
(* are counted in units of 1/BtcScale coin, where BtcScale is the least    *)
(* scale at which every amount/price quotient of the model's price set is  *)
(* whole, so amount / price and btc * price are exact.  A percentage test  *)
(* x / y * 100 > t (y > 0) is written x * 100 > t * y.                     *)
(* Time is counted in whole hours.  A stored timestamp is kept as its age, *)
(* the hours from it to the call now running: every call carries the hours *)
(* dt passed since the previous call and ages the stored timestamps by it; *)
(* an age is capped at MinIntervalHours, beyond which no test tells ages   *)
(* apart.  An optional value (Python None or a value) is a sequence of     *)
(* length 0 or 1.                                                          *)
(***************************************************************************)
EXTENDS Integers, Sequences, FiniteSets, TLC

VARIABLES
    portfolio,   \* data/portfolio.json: [exists, cash_usd, btc, initial_cash]
    active,      \* data/active_trades.json: the list of trade records it holds, []
                 \* when it holds none (no file, or a file cut off by a write)
    file,        \* the condition of data/active_trades.json: "missing", "json"
                 \* (a complete JSON text) or "partial" (opened for writing, the
                 \* text not, or not wholly, written)
    mgr,         \* a long-lived StrategyManager driven through its API
    pending,     \* swing proposals the API caller received and still holds
    last,        \* optional: the call/tick that just ran, with its inputs and results
    live,        \* totals of the live ticks: [alerts, dca_spent]; alerts counts the risk
                 \* alerts of the current run of paused ticks (0, 1, 2 = many)
    api_alerts,  \* the same count for the long-lived manager mgr
    bt,          \* the backtest replayer: its manager, ledger, clock and totals
    save,        \* optional: a _save_active_trades in progress, [before, target]
    atr_strategy \* an ATRStrategy and the trade dicts it has handed out: [objects,
                 \* active_trades, closed_trades]; the lists hold references
                 \* (indices into objects), as the Python lists hold the dicts

vars == <<portfolio, active, file, mgr, pending, last, live, api_alerts, bt, save, atr_strategy>>

(***************************************************************************)
(* Bounds of the model.                                                    *)
(***************************************************************************)
MaxIds == 2      \* trade ids in use at one time
MaxActive == 2   \* entries in the active-trade file
MaxBars == 6     \* bars replayed by one backtest
MaxCash == 2000  \* cash a direct caller of the broker lets the portfolio reach
MaxBtc == 40     \* BTC, in units of 1/BtcScale, such a caller lets it reach
MaxTrades == 2   \* trade dicts an ATRStrategy hands out

(***************************************************************************)
(* Configuration: the parameters run_once and run_backtest hand to the     *)
(* StrategyManager.  The budget is two DCA amounts.                        *)
(***************************************************************************)
BudgetUsd == 1000
DcaAmountUsd == 500
DcaDropPercent == 3
MinIntervalHours == 24
MaxDrawdownPct == 25
AtrKTenths == 15          \* overrides.get("atr_k_stop", 1.5), in tenths
TradingMode == "hybrid"

Prices == {100, 200, 400}
AtrValues == {0, 50}
BarHours == {12, 24}      \* spacing of consecutive backtest bars
CallHours == {0, 24}      \* hours between two calls of an API caller

Min(S) == CHOOSE x \in S : \A y \in S : x <= y
Max(S) == CHOOSE x \in S : \A y \in S : x >= y

\* BTC is counted in units of 1/BtcScale.
BtcScale == Min({s \in 1..Max(Prices) : \A p \in Prices : (DcaAmountUsd * s) % p = 0})

None == <<>>
Some(x) == <<x>>

(***************************************************************************)
(* DCAStrategy                                                             *)
(***************************************************************************)
\* DCAStrategy.__init__: the budget as given and the purchase tracking fields.
NewDcaWith(budget_usd) ==
    [budget_usd |-> budget_usd, last_purchase_time |-> None, total_spent |-> 0]
NewDca == NewDcaWith(BudgetUsd)

\* The age of an optional timestamp after dt more hours.
Aged(t, dt) == IF t = None THEN None ELSE Some(Min({t[1] + dt, MinIntervalHours}))

\* dca_strategy.py line 58: hours from last_purchase_time to current_time.
TimeSinceLast(dca) ==
    IF dca.last_purchase_time # None THEN Some(dca.last_purchase_time[1]) ELSE None

Hold(reason) == [should_buy |-> FALSE, reason |-> reason, amount_usd |-> 0]

\* Lines 61 and 65 of should_buy: the budget gate and the interval gate.
BudgetGate(dca) == dca.total_spent + DcaAmountUsd <= dca.budget_usd
IntervalGate(dca) ==
    LET since == TimeSinceLast(dca)
    IN ~(since # None /\ since[1] # 0 /\ since[1] < MinIntervalHours)

\* Mutant of ShouldBuy: line 69 compares with > for >=.
ShouldBuyStrict(dca, current_price, previous_price) ==
    IF previous_price <= 0 THEN Hold("No previous price data")
    ELSE IF ~BudgetGate(dca) THEN Hold("Insufficient budget")
    ELSE IF ~IntervalGate(dca) THEN Hold("Too soon since last purchase")
    ELSE IF (previous_price - current_price) * 100 > DcaDropPercent * previous_price
        THEN [should_buy |-> TRUE, reason |-> "Price dropped", amount_usd |-> DcaAmountUsd]
    ELSE Hold("Price drop below threshold")

\* DCAStrategy.should_buy
ShouldBuy(dca, current_price, previous_price) ==
    LET since == TimeSinceLast(dca) IN
    IF previous_price <= 0 THEN Hold("No previous price data")
    ELSE IF dca.total_spent + DcaAmountUsd > dca.budget_usd THEN Hold("Insufficient budget")
    ELSE IF since # None /\ since[1] # 0 /\ since[1] < MinIntervalHours
        THEN Hold("Too soon since last purchase")
    ELSE IF (previous_price - current_price) * 100 >= DcaDropPercent * previous_price
        THEN [should_buy |-> TRUE, reason |-> "Price dropped", amount_usd |-> DcaAmountUsd]
    ELSE Hold("Price drop below threshold")

(***************************************************************************)
(* StrategyManager                                                         *)
(***************************************************************************)
\* StrategyManager.__init__: every argument is stored as given; neither this
\* constructor nor DCAStrategy.__init__ raises.
NewManagerWith(budget_usd) ==
    [dca |-> NewDcaWith(budget_usd), last_close_price |-> None, risk_alert_sent |-> FALSE]
NewManagerRaises(budget_usd) == FALSE
NewManager == NewManagerWith(BudgetUsd)

\* current_cash + current_btc * current_price (strategy_manager.py line 65)
PortfolioValue(cash, btc, price) == cash + (btc * price) \div BtcScale

\* Mutant of CheckPortfolioRisk: pauses at the threshold too (>= for >).
CheckPortfolioRiskAtThreshold(pf, current_price) ==
    IF ~pf.exists THEN FALSE
    ELSE IF pf.initial_cash = 0 THEN FALSE
    ELSE (pf.initial_cash - PortfolioValue(pf.cash_usd, pf.btc, current_price)) * 100
             >= MaxDrawdownPct * pf.initial_cash

\* Mutant of CheckPortfolioRisk: a snapshot that cannot be read or has no
\* initial cash pauses trading.
CheckPortfolioRiskFailsClosed(pf, current_price) ==
    IF ~pf.exists THEN FALSE
    ELSE IF pf.text # "json" \/ pf.initial_cash = 0 THEN TRUE
    ELSE (pf.initial_cash - PortfolioValue(pf.cash_usd, pf.btc, current_price)) * 100
             > MaxDrawdownPct * pf.initial_cash

\* StrategyManager._check_portfolio_risk: the pause flag.  A missing file is
\* "No portfolio data"; a file whose text json.load rejects raises, and
\* initial_cash = 0 divides by zero: the except clause of line 73 turns both
\* into not-paused.
CheckPortfolioRisk(pf, current_price) ==
    IF ~pf.exists THEN FALSE
    ELSE IF pf.text # "json" THEN FALSE
    ELSE IF pf.initial_cash = 0 THEN FALSE
    ELSE LET loss == (pf.initial_cash - PortfolioValue(pf.cash_usd, pf.btc, current_price)) * 100
         IN IF pf.initial_cash > 0 THEN loss > MaxDrawdownPct * pf.initial_cash
                                   ELSE loss < MaxDrawdownPct * pf.initial_cash

\* Mutant of StopHit: the comparison is turned around.
StopHitInverted(current_price, tr) == tr.status = "open" /\ current_price >= tr.stop_loss

\* The stop-loss loop of evaluate_hybrid (lines 130-136).
StopHit(current_price, tr) == tr.status = "open" /\ current_price <= tr.stop_loss

\* Mutant of SwingClosures: the loop stops at the first trade it appends.
SwingClosuresFirst(act, current_price) ==
    LET Hit(tr) == StopHit(current_price, tr)
        hits == SelectSeq(act, Hit)
    IN IF hits = <<>> THEN <<>> ELSE <<Head(hits)>>

SwingClosures(act, current_price) ==
    LET Hit(tr) == StopHit(current_price, tr) IN SelectSeq(act, Hit)

\* Mutant of AnyOpen: line 143 looks for the status "pending".
AnyOpenPending(act) == \E i \in 1..Len(act) : act[i].status = "pending"

\* any(t.get("status") == "open" for t in active), line 143.
AnyOpen(act) == \E i \in 1..Len(act) : act[i].status = "open"

\* Mutant of SwingGuard: the guard does not look at the active set.
SwingGuardIgnoresOpen(act, atr_value, ov) ==
    /\ TradingMode = "hybrid"
    /\ ov.enable_swing
    /\ atr_value # 0 /\ atr_value > 0

\* The guard of line 143 under trading_mode == "hybrid".
SwingGuard(act, atr_value, ov) ==
    /\ TradingMode = "hybrid"
    /\ ov.enable_swing
    /\ atr_value # 0 /\ atr_value > 0
    /\ ~AnyOpen(act)

\* The proposal built in lines 144-158.
SwingProposal(current_price, atr_value, swing_amount_usd, id) ==
    [trade_id |-> id,
     entry_price |-> current_price,
     stop_loss |-> current_price - (AtrKTenths * atr_value) \div 10,
     amount_usd |-> swing_amount_usd,
     btc_amount |-> IF current_price > 0
                    THEN (swing_amount_usd * BtcScale) \div current_price ELSE 0,
     atr_value |-> atr_value,
     status |-> "pending"]

PausedDecision ==
    [dca |-> Hold("Risk pause"), swing_open |-> None, swing_closures |-> <<>>,
     risk_pause |-> TRUE]

\* Mutant of EvaluateHybrid: the paused branch does not return early.
EvaluateHybridNoEarlyReturn(m, current_price, atr_value, dt, ov, swing_amount_usd, act, pf, id) ==
    LET risk_pause == CheckPortfolioRisk(pf, current_price)
        dca == [m.dca EXCEPT !.last_purchase_time = Aged(@, dt)]
        previous_price == IF m.last_close_price # None THEN m.last_close_price[1]
                          ELSE current_price
    IN [m |-> [m EXCEPT !.dca = dca, !.last_close_price = Some(current_price),
                        !.risk_alert_sent = risk_pause],
        alert |-> risk_pause /\ ~m.risk_alert_sent,
        decision |->
            [dca |-> ShouldBuy(dca, current_price, previous_price),
             swing_open |-> IF SwingGuard(act, atr_value, ov)
                            THEN Some(SwingProposal(current_price, atr_value, swing_amount_usd, id))
                            ELSE None,
             swing_closures |-> SwingClosures(act, current_price),
             risk_pause |-> risk_pause]]

\* Mutant of EvaluateHybrid: line 127 records the price only when none is
\* tracked yet, so a later call still compares against the first price.
EvaluateHybridKeepsFirstPrice(m, current_price, atr_value, dt, ov, swing_amount_usd, act, pf, id) ==
    LET r == EvaluateHybridNoEarlyReturn(m, current_price, atr_value, dt, ov,
                                         swing_amount_usd, act, pf, id)
        kept == IF m.last_close_price # None THEN m.last_close_price
                ELSE Some(current_price)
    IN IF r.decision.risk_pause
       THEN [r EXCEPT !.m.last_close_price = m.last_close_price,
                      !.decision = PausedDecision]
       ELSE [r EXCEPT !.m.last_close_price = kept]

\* StrategyManager.evaluate_hybrid: the manager after the call, whether
\* send_message was called, and the decision bundle returned.
EvaluateHybrid(m, current_price, atr_value, dt, ov, swing_amount_usd, act, pf, id) ==
    LET risk_pause == CheckPortfolioRisk(pf, current_price)
        dca == [m.dca EXCEPT !.last_purchase_time = Aged(@, dt)]
        previous_price == IF m.last_close_price # None THEN m.last_close_price[1]
                          ELSE current_price
    IN IF risk_pause
       THEN [m |-> [m EXCEPT !.dca = dca, !.risk_alert_sent = TRUE],
             alert |-> ~m.risk_alert_sent,
             decision |-> PausedDecision]
       ELSE [m |-> [m EXCEPT !.dca = dca, !.risk_alert_sent = FALSE,
                             !.last_close_price = Some(current_price)],
             alert |-> FALSE,
             decision |->
                 [dca |-> ShouldBuy(dca, current_price, previous_price),
                  swing_open |-> IF SwingGuard(act, atr_value, ov)
                                 THEN Some(SwingProposal(current_price, atr_value,
                                                         swing_amount_usd, id))
                                 ELSE None,
                  swing_closures |-> SwingClosures(act, current_price),
                  risk_pause |-> FALSE]]

\* Mutant of EvaluateHybridFiles: the evaluation itself drops the trades it
\* reports as stopped from the active-trade file.
EvaluateHybridFilesClosing(act, pf, d) ==
    LET Kept(tr) == \A i \in 1..Len(d.swing_closures) : d.swing_closures[i] # tr
    IN [active |-> SelectSeq(act, Kept), portfolio |-> pf]

\* The two durable files after evaluate_hybrid returned decision d: the call
\* opens portfolio.json and active_trades.json for reading only.
EvaluateHybridFiles(act, pf, d) == [active |-> act, portfolio |-> pf]

\* Mutant of LoadActiveTrades: the exception of json.load is not caught.
LoadActiveTradesRaising(kind, content) ==
    IF kind = "missing" THEN [trades |-> <<>>, raised |-> FALSE]
    ELSE IF kind = "partial" THEN [trades |-> <<>>, raised |-> TRUE]
    ELSE [trades |-> content, raised |-> FALSE]

\* StrategyManager._load_active_trades: [] for a missing file (lines 38-39),
\* [] when open() or json.load raises (lines 40-44), else the list read.
LoadActiveTrades(kind, content) ==
    IF kind = "missing" THEN [trades |-> <<>>, raised |-> FALSE]
    ELSE IF kind = "partial" THEN [trades |-> <<>>, raised |-> FALSE]
    ELSE [trades |-> content, raised |-> FALSE]

\* Mutant of RecordSwingOpenList: the trade is appended as it was handed in.
RecordSwingOpenListAsGiven(act, trade) == Append(act, trade)

\* record_swing_open line 171, trade = dict(trade): the status is set on a
\* copy, so the dict the caller handed in is after the call what it was.
RecordSwingOpenCaller(trade) == trade

\* StrategyManager.record_swing_open: the list written back.
RecordSwingOpenList(act, trade) == Append(act, [trade EXCEPT !.status = "open"])

\* Mutant of RecordSwingCloseList: removes only the first entry with the id.
RECURSIVE RecordSwingCloseListFirst(_, _)
RecordSwingCloseListFirst(act, trade_id) ==
    IF act = <<>> THEN <<>>
    ELSE IF Head(act).trade_id = trade_id THEN Tail(act)
         ELSE <<Head(act)>> \o RecordSwingCloseListFirst(Tail(act), trade_id)

\* Mutant of RecordSwingCloseList: the filter keeps the entries with the id.
RecordSwingCloseListInverted(act, trade_id) ==
    LET Same(tr) == tr.trade_id = trade_id IN SelectSeq(act, Same)

\* StrategyManager.record_swing_close: the list written back.
RecordSwingCloseList(act, trade_id) ==
    LET Keep(tr) == tr.trade_id # trade_id IN SelectSeq(act, Keep)

(***************************************************************************)
(* ATRStrategy (src/strategy/atr_strategy.py): a trade book in memory      *)
(***************************************************************************)
AtrMultiplierTenths == 15

\* ATRStrategy.__init__
NewAtrStrategy == [objects |-> <<>>, active_trades |-> <<>>, closed_trades |-> <<>>]

\* calculate_stop_loss for direction "long".
CalculateStopLoss(entry_price, atr_value) ==
    entry_price - (atr_value * AtrMultiplierTenths) \div 10

\* open_trade: the dict built in lines 62-72 and appended to active_trades;
\* the keys close_trade adds later are absent (None).
OpenTrade(st, trade_id, entry_price, atr_value, amount_usd) ==
    LET trade == [trade_id |-> trade_id, entry_price |-> entry_price,
                  stop_loss |-> CalculateStopLoss(entry_price, atr_value),
                  amount_usd |-> amount_usd,
                  btc_amount |-> (amount_usd * BtcScale) \div entry_price,
                  atr_value |-> atr_value, status |-> "open",
                  exit_price |-> None, exit_reason |-> None,
                  pnl_usd |-> None, pnl_percent |-> None]
        ref == Len(st.objects) + 1
    IN [st EXCEPT !.objects = Append(@, trade), !.active_trades = Append(@, ref)]

\* list.remove: the first occurrence is dropped.
RECURSIVE RemoveFirst(_, _)
RemoveFirst(list, x) ==
    IF list = <<>> THEN <<>>
    ELSE IF Head(list) = x THEN Tail(list)
         ELSE <<Head(list)>> \o RemoveFirst(Tail(list), x)
InList(list, x) == \E i \in 1..Len(list) : list[i] = x

\* close_trade, lines 119-133: the P&L, then the dict is updated in place
\* (124-129), then active_trades.remove(trade), which raises ValueError for
\* a dict that is not in the list, then closed_trades.append(trade).
CloseTrade(st, ref, exit_price) ==
    LET trade == st.objects[ref]
        pnl_usd == ((exit_price - trade.entry_price) * trade.btc_amount) \div BtcScale
        pnl_percent == (pnl_usd * 100) \div trade.amount_usd
        updated == [trade EXCEPT !.exit_price = Some(exit_price),
                                 !.exit_reason = Some("stop_loss"),
                                 !.pnl_usd = Some(pnl_usd),
                                 !.pnl_percent = Some(pnl_percent),
                                 !.status = "closed"]
        st1 == [st EXCEPT !.objects[ref] = updated]
    IN IF InList(st.active_trades, ref)
       THEN [st |-> [st1 EXCEPT !.active_trades = RemoveFirst(@, ref),
                                !.closed_trades = Append(@, ref)],
             raised |-> FALSE]
       ELSE [st |-> st1, raised |-> TRUE]

(***************************************************************************)
(* Paper broker                                                            *)
(***************************************************************************)
\* _ensure_storage / _read_portfolio: a missing file is created with zeros.
\* (json.load of a cut-off file raises out of _read_portfolio; the broker is
\* run over complete files only.)
ReadPortfolio(pf) ==
    IF pf.exists THEN pf
    ELSE [exists |-> TRUE, text |-> "json", cash_usd |-> 0, btc |-> 0, initial_cash |-> 0]

\* Mutant of SetInitialCash: line 35 tests the cash only.
SetInitialCashWhenNoCash(pf, budget_usd) ==
    LET state == ReadPortfolio(pf) IN
    IF state.cash_usd = 0
    THEN [state EXCEPT !.cash_usd = budget_usd, !.initial_cash = budget_usd]
    ELSE state

\* set_initial_cash
SetInitialCash(pf, budget_usd) ==
    LET state == ReadPortfolio(pf) IN
    IF state.cash_usd = 0 /\ state.btc = 0
    THEN [state EXCEPT !.cash_usd = budget_usd, !.initial_cash = budget_usd]
    ELSE state

\* Mutant of BuyRaises: place_market_buy accepts every order.
BuyRaisesNever(pf, amount_usd) == FALSE

\* place_market_buy: raises ValueError when amount_usd exceeds the cash.
BuyRaises(pf, amount_usd) == amount_usd > ReadPortfolio(pf).cash_usd
PlaceMarketBuy(pf, price_usd, amount_usd) ==
    LET state == ReadPortfolio(pf)
        btc_amount == IF price_usd > 0 THEN (amount_usd * BtcScale) \div price_usd ELSE 0
    IN [state EXCEPT !.cash_usd = @ - amount_usd, !.btc = @ + btc_amount]

\* place_market_sell: raises ValueError when btc_amount exceeds the holding.
SellRaises(pf, btc_amount) == btc_amount > ReadPortfolio(pf).btc
PlaceMarketSell(pf, price_usd, btc_amount) ==
    LET state == ReadPortfolio(pf)
    IN [state EXCEPT !.cash_usd = @ + (btc_amount * price_usd) \div BtcScale,
                     !.btc = @ - btc_amount]

(***************************************************************************)
(* Trade ids.  evaluate_hybrid draws str(uuid4())[:8]; the model takes the *)
(* least id that no stored or held trade carries.                          *)
(***************************************************************************)
Ids == 1..MaxIds
IdsOf(act) == {act[i].trade_id : i \in 1..Len(act)}
LastProposalIds ==
    IF last # None /\ last[1].op \in {"live", "eval", "bar"} /\ last[1].decision.swing_open # None
    THEN {last[1].decision.swing_open[1].trade_id} ELSE {}
UsedIds == IdsOf(active) \cup {t.trade_id : t \in pending} \cup LastProposalIds
HasFreshId == Ids \ UsedIds # {}
FreshId == IF HasFreshId THEN Min(Ids \ UsedIds) ELSE 0

Overrides == [enable_swing : BOOLEAN]

\* The alerts of the current run of paused ticks, counted 0, 1, many.
EpisodeAlerts(count, risk_pause, alert) ==
    IF ~risk_pause THEN 0
    ELSE IF alert THEN Min({count + 1, 2}) ELSE count

(***************************************************************************)
(* Initial state: no data directory, a manager just constructed, no        *)
(* backtest started.                                                       *)
(***************************************************************************)
NoPortfolio ==
    [exists |-> FALSE, text |-> "json", cash_usd |-> 0, btc |-> 0, initial_cash |-> 0]
BacktestIdle ==
    [phase |-> "idle", m |-> NewManager, cash |-> 0, btc |-> 0,
     ov |-> [enable_swing |-> FALSE], bars |-> 0,
     dca_spent |-> 0, since_dca |-> None, alerts |-> 0]

Init ==
    /\ portfolio = NoPortfolio
    /\ active = <<>>
    /\ file = "missing"
    /\ mgr = NewManager
    /\ pending = {}
    /\ last = None
    /\ live = [alerts |-> 0, dca_spent |-> 0]
    /\ api_alerts = 0
    /\ bt = BacktestIdle
    /\ save = None
    /\ atr_strategy = NewAtrStrategy

(***************************************************************************)
(* The live tick: run_once (src/main.py), a fresh StrategyManager per tick *)
(***************************************************************************)
\* main.py lines 75-86: sell and commit each closure in turn; a ValueError
\* of place_market_sell ends the tick with the earlier closures done.
RECURSIVE LiveCloseLoop(_, _, _, _, _)
LiveCloseLoop(closures, price, pf, act, sold) ==
    IF closures = <<>> THEN [pf |-> pf, act |-> act, raised |-> FALSE, sold |-> sold]
    ELSE LET tr == Head(closures) IN
         IF tr.btc_amount > 0
         THEN IF SellRaises(pf, tr.btc_amount)
              THEN [pf |-> pf, act |-> act, raised |-> TRUE, sold |-> sold]
              ELSE LiveCloseLoop(Tail(closures), price,
                                 PlaceMarketSell(pf, price, tr.btc_amount),
                                 RecordSwingCloseList(act, tr.trade_id), sold + 1)
         ELSE LiveCloseLoop(Tail(closures), price, pf, act, sold)

\* Mutant of LiveExecute: the swing trade is committed before its buy is placed.
LiveExecuteCommitFirst(d, price, pf, act) ==
    LET stay == [pf |-> pf, act |-> act, raised |-> FALSE,
                 dca_filled |-> FALSE, swing_filled |-> FALSE, sold |-> 0]
    IN
    IF d.risk_pause THEN stay
    ELSE IF d.dca.should_buy /\ BuyRaises(pf, d.dca.amount_usd)
         THEN [stay EXCEPT !.raised = TRUE]
    ELSE LET pf1 == IF d.dca.should_buy
                    THEN PlaceMarketBuy(pf, price, d.dca.amount_usd) ELSE pf
             dcaf == d.dca.should_buy
         IN
         IF d.swing_open # None /\ BuyRaises(pf1, d.swing_open[1].amount_usd)
         THEN [stay EXCEPT !.pf = pf1, !.raised = TRUE, !.dca_filled = dcaf,
                           !.act = RecordSwingOpenList(act, d.swing_open[1])]
         ELSE LET opening == d.swing_open # None
                  pf2 == IF opening
                         THEN PlaceMarketBuy(pf1, price, d.swing_open[1].amount_usd)
                         ELSE pf1
                  act2 == IF opening THEN RecordSwingOpenList(act, d.swing_open[1])
                          ELSE act
                  loop == LiveCloseLoop(d.swing_closures, price, pf2, act2, 0)
              IN [pf |-> loop.pf, act |-> loop.act, raised |-> loop.raised,
                  dca_filled |-> dcaf, swing_filled |-> opening, sold |-> loop.sold]

\* main.py lines 43-86: what run_once does with the decision bundle.
LiveExecute(d, price, pf, act) ==
    LET stay == [pf |-> pf, act |-> act, raised |-> FALSE,
                 dca_filled |-> FALSE, swing_filled |-> FALSE, sold |-> 0]
    IN
    IF d.risk_pause THEN stay
    ELSE IF d.dca.should_buy /\ BuyRaises(pf, d.dca.amount_usd)
         THEN [stay EXCEPT !.raised = TRUE]
    ELSE LET pf1 == IF d.dca.should_buy
                    THEN PlaceMarketBuy(pf, price, d.dca.amount_usd) ELSE pf
             dcaf == d.dca.should_buy
         IN
         IF d.swing_open # None /\ BuyRaises(pf1, d.swing_open[1].amount_usd)
         THEN [stay EXCEPT !.pf = pf1, !.raised = TRUE, !.dca_filled = dcaf]
         ELSE LET opening == d.swing_open # None
                  pf2 == IF opening
                         THEN PlaceMarketBuy(pf1, price, d.swing_open[1].amount_usd)
                         ELSE pf1
                  act2 == IF opening THEN RecordSwingOpenList(act, d.swing_open[1])
                          ELSE act
                  loop == LiveCloseLoop(d.swing_closures, price, pf2, act2, 0)
              IN [pf |-> loop.pf, act |-> loop.act, raised |-> loop.raised,
                  dca_filled |-> dcaf, swing_filled |-> opening, sold |-> loop.sold]

RunOnce(price, atr, ov) ==
    LET pf0 == SetInitialCash(portfolio, BudgetUsd)
        ev == EvaluateHybrid(NewManager, price, atr, 0, ov, DcaAmountUsd,
                             LoadActiveTrades(file, active).trades, pf0, FreshId)
        d == ev.decision
        files == EvaluateHybridFiles(active, pf0, d)
        ex == LiveExecute(d, price, files.portfolio, files.active)
    IN
    /\ save = None
    /\ d.swing_open # None => HasFreshId
    /\ Len(ex.act) <= MaxActive
    /\ portfolio' = ex.pf
    /\ active' = ex.act
    /\ live' = [alerts |-> EpisodeAlerts(live.alerts, d.risk_pause, ev.alert),
                dca_spent |-> IF ex.dca_filled THEN live.dca_spent + d.dca.amount_usd
                              ELSE live.dca_spent]
    /\ last' = Some([op |-> "live", price |-> price, atr |-> atr, dt |-> 0, ov |-> ov,
                     decision |-> d, alert |-> ev.alert, raised |-> ex.raised,
                     dca_filled |-> ex.dca_filled, swing_filled |-> ex.swing_filled,
                     sold |-> ex.sold])
    /\ file' = IF ex.swing_filled \/ ex.sold > 0 THEN "json" ELSE file
    /\ UNCHANGED <<mgr, pending, api_alerts, bt, save, atr_strategy>>

(***************************************************************************)
(* A caller of the StrategyManager API on one long-lived instance          *)
(***************************************************************************)
\* This call directly follows a call on mgr with the same price, ATR and
\* overrides, at the same `now`.
Repeats(price, atr, dt, ov) ==
    /\ last # None /\ last[1].op = "eval"
    /\ last[1].price = price /\ last[1].atr = atr /\ last[1].ov = ov /\ dt = 0

\* evaluate_hybrid called by a caller that compares the decision with the one
\* before it.
Evaluate(price, atr, dt, ov) ==
    LET ev == EvaluateHybrid(mgr, price, atr, dt, ov, DcaAmountUsd,
                             LoadActiveTrades(file, active).trades, portfolio, FreshId)
        d == ev.decision
    IN
    /\ d.swing_open # None => HasFreshId
    /\ mgr' = ev.m
    /\ api_alerts' = EpisodeAlerts(api_alerts, d.risk_pause, ev.alert)
    /\ last' = Some([op |-> "eval", price |-> price, atr |-> atr, dt |-> dt, ov |-> ov,
                     decision |-> d, alert |-> ev.alert,
                     raised |-> LoadActiveTrades(file, active).raised,
                     dca_filled |-> FALSE, swing_filled |-> FALSE, sold |-> 0,
                     repeats |-> IF Repeats(price, atr, dt, ov) THEN Some(last[1].decision)
                                 ELSE None])
    /\ active' = EvaluateHybridFiles(active, portfolio, d).active
    /\ portfolio' = EvaluateHybridFiles(active, portfolio, d).portfolio
    /\ UNCHANGED <<pending, live, bt, save, file, atr_strategy>>

\* StrategyManager(budget_usd=...) constructed by an API caller.
ConstructBudgets == {0 - BudgetUsd, 0, BudgetUsd}
Construct(budget_usd) ==
    /\ mgr' = IF NewManagerRaises(budget_usd) THEN mgr ELSE NewManagerWith(budget_usd)
    /\ api_alerts' = 0
    /\ last' = Some([op |-> "new", budget_usd |-> budget_usd,
                     raised |-> NewManagerRaises(budget_usd)])
    /\ UNCHANGED <<portfolio, active, pending, live, bt, save, file, atr_strategy>>

\* evaluate_hybrid called by a caller that holds on to the proposal, if there
\* is one, in order to commit it later.
Propose(price, atr, dt, ov) ==
    LET ev == EvaluateHybrid(mgr, price, atr, dt, ov, DcaAmountUsd,
                             LoadActiveTrades(file, active).trades, portfolio, FreshId)
        d == ev.decision
    IN
    /\ d.swing_open # None => HasFreshId
    /\ mgr' = ev.m
    /\ pending' = IF d.swing_open # None THEN pending \cup {d.swing_open[1]} ELSE pending
    /\ api_alerts' = EpisodeAlerts(api_alerts, d.risk_pause, ev.alert)
    /\ last' = None
    /\ active' = EvaluateHybridFiles(active, portfolio, d).active
    /\ portfolio' = EvaluateHybridFiles(active, portfolio, d).portfolio
    /\ UNCHANGED <<live, bt, save, file, atr_strategy>>

RecordSwingOpen(trade) ==
    /\ save = None
    /\ Len(active) < MaxActive
    /\ active' = RecordSwingOpenList(active, trade)
    /\ pending' = {IF t = trade THEN RecordSwingOpenCaller(t) ELSE t : t \in pending}
    /\ last' = Some([op |-> "open", trade |-> trade, before |-> active,
                     caller |-> RecordSwingOpenCaller(trade)])
    /\ file' = "json"
    /\ UNCHANGED <<portfolio, mgr, live, api_alerts, bt, save, atr_strategy>>

RecordSwingClose(trade_id) ==
    /\ save = None
    /\ active' = RecordSwingCloseList(active, trade_id)
    /\ last' = Some([op |-> "close", trade_id |-> trade_id, before |-> active,
                     reopens |-> IF last # None /\ last[1].op = "open"
                                    /\ last[1].trade.trade_id = trade_id
                                 THEN Some(last[1].before) ELSE None])
    /\ file' = "json"
    /\ UNCHANGED <<portfolio, mgr, pending, live, api_alerts, bt, save, atr_strategy>>

\* The caller drops a proposal it will not commit (again).
Discard(trade) ==
    /\ pending' = pending \ {trade}
    /\ last' = None
    /\ UNCHANGED <<portfolio, active, mgr, live, api_alerts, bt, save, file, atr_strategy>>

(***************************************************************************)
(* A direct caller of the paper broker                                     *)
(***************************************************************************)
Budgets == {0, BudgetUsd, 2 * BudgetUsd}
OrderAmounts == {DcaAmountUsd, BudgetUsd}
OrderQuantities == {(a * BtcScale) \div p : a \in OrderAmounts, p \in Prices}

BrokerFund(budget_usd) ==
    /\ portfolio' = SetInitialCash(portfolio, budget_usd)
    /\ last' = Some([op |-> "fund", budget_usd |-> budget_usd, raised |-> FALSE])
    /\ UNCHANGED <<active, mgr, pending, live, api_alerts, bt, save, file, atr_strategy>>

BrokerBuy(price_usd, amount_usd) ==
    /\ ~BuyRaises(portfolio, amount_usd)
          => PlaceMarketBuy(portfolio, price_usd, amount_usd).btc <= MaxBtc
    /\ portfolio' = IF BuyRaises(portfolio, amount_usd) THEN ReadPortfolio(portfolio)
                    ELSE PlaceMarketBuy(portfolio, price_usd, amount_usd)
    /\ last' = Some([op |-> "buy", amount_usd |-> amount_usd,
                     raised |-> BuyRaises(portfolio, amount_usd)])
    /\ UNCHANGED <<active, mgr, pending, live, api_alerts, bt, save, file, atr_strategy>>

BrokerSell(price_usd, btc_amount) ==
    /\ ~SellRaises(portfolio, btc_amount)
          => PlaceMarketSell(portfolio, price_usd, btc_amount).cash_usd <= MaxCash
    /\ portfolio' = IF SellRaises(portfolio, btc_amount) THEN ReadPortfolio(portfolio)
                    ELSE PlaceMarketSell(portfolio, price_usd, btc_amount)
    /\ last' = Some([op |-> "sell", btc_amount |-> btc_amount,
                     raised |-> SellRaises(portfolio, btc_amount)])
    /\ UNCHANGED <<active, mgr, pending, live, api_alerts, bt, save, file, atr_strategy>>

(***************************************************************************)
(* A commit step by step, with a reader in another process                 *)
(***************************************************************************)
\* _save_active_trades line 48: open(path, "w") truncates the file; until the
\* dump is flushed the file holds nothing or a prefix of the JSON text, which
\* json.load rejects, so _load_active_trades (lines 40-44) returns [].
TruncatedFile == <<>>

\* record_swing_open up to the open() of _save_active_trades.
RecordSwingOpenBegin(trade) ==
    /\ save = None
    /\ Len(active) < MaxActive
    /\ save' = Some([before |-> active, target |-> RecordSwingOpenList(active, trade)])
    /\ active' = TruncatedFile
    /\ last' = None
    /\ file' = "partial"
    /\ UNCHANGED <<portfolio, mgr, pending, live, api_alerts, bt, atr_strategy>>

\* record_swing_close up to the open() of _save_active_trades.
RecordSwingCloseBegin(trade_id) ==
    /\ save = None
    /\ save' = Some([before |-> active, target |-> RecordSwingCloseList(active, trade_id)])
    /\ active' = TruncatedFile
    /\ last' = None
    /\ file' = "partial"
    /\ UNCHANGED <<portfolio, mgr, pending, live, api_alerts, bt, atr_strategy>>

\* _save_active_trades lines 48-49 complete: the dump is written and the file closed.
SaveEnd ==
    /\ save # None
    /\ active' = save[1].target
    /\ save' = None
    /\ last' = Some([op |-> "saved", before |-> save[1].before, target |-> save[1].target])
    /\ file' = "json"
    /\ UNCHANGED <<portfolio, mgr, pending, live, api_alerts, bt, atr_strategy>>

\* The process dies, or the dump raises, after the open() and before the
\* text reaches the file: the file stays as the open() left it.
SaveCrash ==
    /\ save # None
    /\ save' = None
    /\ last' = Some([op |-> "crash", before |-> save[1].before, target |-> save[1].target])
    /\ UNCHANGED <<portfolio, active, mgr, pending, live, api_alerts, bt, file, atr_strategy>>

\* _load_active_trades called by an evaluate_hybrid of another process.
Load ==
    /\ last' = Some([op |-> "load", seen |-> LoadActiveTrades(file, active).trades,
                     raised |-> LoadActiveTrades(file, active).raised, writing |-> save])
    /\ UNCHANGED <<portfolio, active, mgr, pending, live, api_alerts, bt, save, file, atr_strategy>>

(***************************************************************************)
(* The backtest replayer: BacktestEngine.run_backtest                      *)
(***************************************************************************)
\* engine.py lines 105-118: sell every closure the ledger can cover.
RECURSIVE BacktestStopLoop(_, _, _, _, _)
BacktestStopLoop(closures, price, cash, btc, sold) ==
    IF closures = <<>> THEN [cash |-> cash, btc |-> btc, sold |-> sold]
    ELSE LET btc_to_sell == Head(closures).btc_amount IN
         IF btc_to_sell > 0 /\ btc >= btc_to_sell
         THEN BacktestStopLoop(Tail(closures), price,
                               cash + (btc_to_sell * price) \div BtcScale,
                               btc - btc_to_sell, sold + 1)
         ELSE BacktestStopLoop(Tail(closures), price, cash, btc, sold)

\* engine.py lines 71-118: the fills of one bar against the private ledger.
\* Lines 75 and 92 divide the amount by the bar's price: a fill at price 0
\* raises ZeroDivisionError before the ledger is touched, and nothing in
\* run_backtest catches it.
BacktestExecute(d, price, cash, btc) ==
    LET do_dca == ~d.risk_pause /\ d.dca.should_buy /\ cash >= d.dca.amount_usd
        do_swing == /\ TradingMode = "hybrid" /\ ~d.risk_pause /\ d.swing_open # None
                    /\ (IF do_dca THEN cash - d.dca.amount_usd ELSE cash)
                           >= d.swing_open[1].amount_usd
    IN IF price = 0 /\ (do_dca \/ do_swing)
       THEN [cash |-> cash, btc |-> btc, dca_filled |-> FALSE, swing_filled |-> FALSE,
             sold |-> 0, raised |-> TRUE]
       ELSE
       LET cash1 == IF do_dca THEN cash - d.dca.amount_usd ELSE cash
           btc1 == IF do_dca THEN btc + (d.dca.amount_usd * BtcScale) \div price ELSE btc
           cash2 == IF do_swing THEN cash1 - d.swing_open[1].amount_usd ELSE cash1
           btc2 == IF do_swing
                   THEN btc1 + (d.swing_open[1].amount_usd * BtcScale) \div price ELSE btc1
           loop == BacktestStopLoop(d.swing_closures, price, cash2, btc2, 0)
       IN [cash |-> loop.cash, btc |-> loop.btc, dca_filled |-> do_dca,
           swing_filled |-> do_swing, sold |-> loop.sold, raised |-> FALSE]

\* Mutant of BacktestFiles: the replayer commits a swing it filled to the
\* active-trade file.
BacktestFilesCommitting(act, pf, d, ex) ==
    [active |-> IF ex.swing_filled THEN RecordSwingOpenList(act, d.swing_open[1]) ELSE act,
     portfolio |-> pf]

\* The two durable files after the fills ex of one bar: lines 71-118 call
\* neither the paper broker nor record_swing_open / record_swing_close.
BacktestFiles(act, pf, d, ex) == [active |-> act, portfolio |-> pf]

\* engine.py lines 25-38: a new manager and a ledger holding the budget.
BacktestStart(ov) ==
    /\ bt.phase = "idle"
    /\ bt' = [BacktestIdle EXCEPT !.phase = "running", !.cash = BudgetUsd, !.ov = ov]
    /\ last' = None
    /\ UNCHANGED <<portfolio, active, mgr, pending, live, api_alerts, save, file, atr_strategy>>

\* engine.py lines 41-118: one bar, dt hours after the previous one.  An
\* exception of the fills leaves run_backtest: the run has failed.
BacktestBar(price, atr, dt) ==
    LET ev == EvaluateHybrid(bt.m, price, atr, dt, bt.ov, DcaAmountUsd,
                             LoadActiveTrades(file, active).trades, portfolio, FreshId)
        d == ev.decision
        files == EvaluateHybridFiles(active, portfolio, d)
        ex == BacktestExecute(d, price, bt.cash, bt.btc)
        since == Aged(bt.since_dca, dt)
    IN
    /\ bt.phase = "running"
    /\ bt.bars < MaxBars
    /\ d.swing_open # None => HasFreshId
    /\ bt' = [bt EXCEPT !.phase = IF ex.raised THEN "failed" ELSE @,
                        !.m = ev.m, !.cash = ex.cash, !.btc = ex.btc, !.bars = @ + 1,
                        !.dca_spent = IF ex.dca_filled THEN @ + d.dca.amount_usd ELSE @,
                        !.since_dca = IF ex.dca_filled THEN Some(0) ELSE since,
                        !.alerts = EpisodeAlerts(@, d.risk_pause, ev.alert)]
    /\ last' = Some([op |-> "bar", price |-> price, atr |-> atr, dt |-> dt, ov |-> bt.ov,
                     decision |-> d, alert |-> ev.alert, raised |-> ex.raised,
                     dca_filled |-> ex.dca_filled, swing_filled |-> ex.swing_filled,
                     sold |-> ex.sold,
                     dca_gap |-> IF ex.dca_filled THEN since ELSE None])
    /\ active' = BacktestFiles(files.active, files.portfolio, d, ex).active
    /\ portfolio' = BacktestFiles(files.active, files.portfolio, d, ex).portfolio
    /\ UNCHANGED <<mgr, pending, live, api_alerts, save, file, atr_strategy>>

(***************************************************************************)
(* The same ticks fed to the live path and to a replayer                   *)
(***************************************************************************)
\* One tick handed both to run_once (main.py 11-86) and, as the next bar, to
\* a running run_backtest (engine.py 41-118) started with the same budget
\* and overrides; both read the durable files as they are before the tick.
PairedTick(price, atr, dt) ==
    LET pf0 == SetInitialCash(portfolio, BudgetUsd)
        lev == EvaluateHybrid(NewManager, price, atr, 0, bt.ov, DcaAmountUsd,
                             LoadActiveTrades(file, active).trades, pf0, FreshId)
        ld == lev.decision
        lfiles == EvaluateHybridFiles(active, pf0, ld)
        lex == LiveExecute(ld, price, lfiles.portfolio, lfiles.active)
        bev == EvaluateHybrid(bt.m, price, atr, dt, bt.ov, DcaAmountUsd,
                             LoadActiveTrades(file, active).trades, pf0, FreshId)
        bd == bev.decision
        bex == BacktestExecute(bd, price, bt.cash, bt.btc)
    IN
    /\ save = None
    /\ bt.phase = "running"
    /\ bt.bars < MaxBars
    /\ (ld.swing_open # None \/ bd.swing_open # None) => HasFreshId
    /\ Len(lex.act) <= MaxActive
    /\ portfolio' = lex.pf
    /\ active' = lex.act
    /\ live' = [alerts |-> EpisodeAlerts(live.alerts, ld.risk_pause, lev.alert),
                dca_spent |-> IF lex.dca_filled THEN live.dca_spent + ld.dca.amount_usd
                              ELSE live.dca_spent]
    /\ bt' = [bt EXCEPT !.m = bev.m, !.cash = bex.cash, !.btc = bex.btc, !.bars = @ + 1,
                        !.dca_spent = IF bex.dca_filled THEN @ + bd.dca.amount_usd ELSE @,
                        !.since_dca = IF bex.dca_filled THEN Some(0) ELSE Aged(@, dt),
                        !.alerts = EpisodeAlerts(@, bd.risk_pause, bev.alert)]
    /\ last' = Some([op |-> "pair", price |-> price, atr |-> atr, dt |-> dt, ov |-> bt.ov,
                     decision |-> ld, raised |-> lex.raised,
                     dca_filled |-> lex.dca_filled, swing_filled |-> lex.swing_filled,
                     sold |-> lex.sold,
                     bar_decision |-> bd, bar_dca_filled |-> bex.dca_filled,
                     bar_swing_filled |-> bex.swing_filled, bar_sold |-> bex.sold])
    /\ file' = IF lex.swing_filled \/ lex.sold > 0 THEN "json" ELSE file
    /\ UNCHANGED <<mgr, pending, api_alerts, save, atr_strategy>>

\* Ticks at the edges of the input types: a price of 0 and an ATR of 0 or
\* below, over a portfolio file that may hold initial_cash = 0.
EdgePrices == Prices \cup {0}
EdgeAtrValues == AtrValues \cup {0 - 50}
NextEdge ==
    \/ bt.phase = "idle" /\ BrokerFund(0)
    \/ /\ bt.phase = "idle"
       /\ \E price \in EdgePrices, atr \in EdgeAtrValues, ov \in Overrides :
              Evaluate(price, atr, 0, ov)
    \/ \E ov \in Overrides : BacktestStart(ov)
    \/ \E price \in EdgePrices, atr \in EdgeAtrValues :
           BacktestBar(price, atr, MinIntervalHours)

NextCompare ==
    \/ \E ov \in Overrides : BacktestStart(ov)
    \/ \E price \in Prices, atr \in AtrValues, dt \in BarHours : PairedTick(price, atr, dt)

NextBacktest ==
    \/ \E ov \in Overrides : BacktestStart(ov)
    \/ \E price \in Prices, atr \in AtrValues, dt \in BarHours : BacktestBar(price, atr, dt)

NextLive == \E price \in Prices, atr \in AtrValues, ov \in Overrides : RunOnce(price, atr, ov)

NextEvaluate ==
    \E price \in Prices, atr \in AtrValues, dt \in CallHours, ov \in Overrides :
        Evaluate(price, atr, dt, ov)

\* evaluate_hybrid over an active-trade file that another writer left: up to
\* MaxActive entries, each a stored swing trade whose status is "open" or
\* "closed" (line 132 reads the status of every entry).
StoredTrades(id) ==
    {[SwingProposal(entry, Max(AtrValues), DcaAmountUsd, id) EXCEPT !.status = st] :
        entry \in Prices, st \in {"open", "closed"}}
StoredFiles ==
    UNION {{f \in [1..n -> UNION {StoredTrades(id) : id \in 1..n}] :
               \A i \in 1..n : f[i].trade_id = i} : n \in 0..MaxActive}
InitStored ==
    /\ active \in StoredFiles
    /\ file = "json"
    /\ portfolio = NoPortfolio
    /\ mgr = NewManager
    /\ pending = {}
    /\ last = None
    /\ live = [alerts |-> 0, dca_spent |-> 0]
    /\ api_alerts = 0
    /\ bt = BacktestIdle
    /\ save = None
    /\ atr_strategy = NewAtrStrategy
SpecStored == InitStored /\ [][NextEvaluate]_vars

\* evaluate_hybrid over a portfolio snapshot as the paper broker can have
\* left it: none, the zeros of _ensure_storage, a funded one with or without
\* BTC, one whose initial_cash is 0, and one cut off inside _write_portfolio
\* (line 26 truncates before line 27 writes).
Snapshots ==
    {NoPortfolio}
      \cup {[exists |-> TRUE, text |-> t, cash_usd |-> c, btc |-> b, initial_cash |-> i] :
               t \in {"json", "partial"}, c \in {0, DcaAmountUsd}, b \in {0, BtcScale},
               i \in {0, BudgetUsd}}
InitSnapshot ==
    /\ portfolio \in Snapshots
    /\ active = <<>>
    /\ file = "missing"
    /\ mgr = NewManager
    /\ pending = {}
    /\ last = None
    /\ live = [alerts |-> 0, dca_spent |-> 0]
    /\ api_alerts = 0
    /\ bt = BacktestIdle
    /\ save = None
    /\ atr_strategy = NewAtrStrategy
SpecSnapshot == InitSnapshot /\ [][NextEvaluate]_vars

\* DCAStrategy.should_buy called on the strategy of the caller's manager with
\* a pair of prices around the drop threshold.
DcaPrices == {0, 96, 97, 98, 100, 200}
ShouldBuyCall(current_price, previous_price) ==
    /\ last' = Some([op |-> "should_buy", current_price |-> current_price,
                     previous_price |-> previous_price, dca |-> mgr.dca,
                     decision |-> ShouldBuy(mgr.dca, current_price, previous_price)])
    /\ UNCHANGED <<portfolio, active, mgr, pending, live, api_alerts, bt, save, file, atr_strategy>>

NextDca ==
    \/ \E budget_usd \in ConstructBudgets : Construct(budget_usd)
    \/ \E current_price \in DcaPrices, previous_price \in DcaPrices :
           ShouldBuyCall(current_price, previous_price)
SpecDca == Init /\ [][NextDca]_vars

\* A caller of ATRStrategy that keeps every dict open_trade returned.
AtrOpenTrade(trade_id, entry_price, atr_value) ==
    /\ Len(atr_strategy.objects) < MaxTrades
    /\ atr_strategy' = OpenTrade(atr_strategy, trade_id, entry_price, atr_value, DcaAmountUsd)
    /\ last' = Some([op |-> "atr_open", before |-> atr_strategy, raised |-> FALSE])
    /\ UNCHANGED <<portfolio, active, file, mgr, pending, live, api_alerts, bt, save>>

AtrCloseTrade(ref, exit_price) ==
    /\ atr_strategy' = CloseTrade(atr_strategy, ref, exit_price).st
    /\ last' = Some([op |-> "atr_close", ref |-> ref, before |-> atr_strategy,
                     raised |-> CloseTrade(atr_strategy, ref, exit_price).raised])
    /\ UNCHANGED <<portfolio, active, file, mgr, pending, live, api_alerts, bt, save>>

NextAtr ==
    \/ \E trade_id \in Ids, entry_price \in Prices, atr_value \in AtrValues :
           AtrOpenTrade(trade_id, entry_price, atr_value)
    \/ \E ref \in 1..Len(atr_strategy.objects), exit_price \in Prices :
           AtrCloseTrade(ref, exit_price)
SpecAtr == Init /\ [][NextAtr]_vars

NextConstruct ==
    \/ \E budget_usd \in ConstructBudgets : Construct(budget_usd)
    \/ NextEvaluate

NextApi ==
    \/ \E price \in Prices, atr \in AtrValues, dt \in CallHours, ov \in Overrides :
           Propose(price, atr, dt, ov)
    \/ \E trade \in pending : RecordSwingOpen(trade)
    \/ \E trade_id \in Ids : RecordSwingClose(trade_id)
    \/ \E trade \in pending : Discard(trade)

NextCommit ==
    \/ \E price \in Prices, atr \in AtrValues, dt \in CallHours, ov \in Overrides :
           Propose(price, atr, dt, ov)
    \/ \E trade \in pending : RecordSwingOpenBegin(trade)
    \/ \E trade_id \in Ids : RecordSwingCloseBegin(trade_id)
    \/ SaveEnd
    \/ SaveCrash
    \/ Load

NextBroker ==
    \/ \E budget_usd \in Budgets : BrokerFund(budget_usd)
    \/ \E price_usd \in Prices, amount_usd \in OrderAmounts : BrokerBuy(price_usd, amount_usd)
    \/ \E price_usd \in Prices, btc_amount \in OrderQuantities :
           BrokerSell(price_usd, btc_amount)

Next ==
    \/ NextLive \/ NextEvaluate \/ NextApi \/ NextBacktest \/ NextCommit \/ NextBroker
    \/ NextCompare \/ NextEdge \/ NextConstruct \/ NextDca \/ NextAtr

Spec == Init /\ [][Next]_vars
SpecLive == Init /\ [][NextLive]_vars
\* The scheduler keeps calling run_once: ticks keep being run.
SpecLiveFair == SpecLive /\ WF_vars(NextLive)
SpecEngine == Init /\ [][NextLive \/ NextEvaluate]_vars
SpecApi == Init /\ [][NextApi]_vars
SpecCommit == Init /\ [][NextCommit]_vars
SpecBroker == Init /\ [][NextBroker]_vars
\* The live ticks beside another user of the paper broker's portfolio.
NextLiveBroker ==
    \/ NextLive
    \/ \E price_usd \in Prices, amount_usd \in OrderAmounts : BrokerBuy(price_usd, amount_usd)
    \/ \E price_usd \in Prices, btc_amount \in OrderQuantities : BrokerSell(price_usd, btc_amount)
SpecLiveBroker == Init /\ [][NextLiveBroker]_vars
SpecCompare == Init /\ [][NextCompare]_vars
SpecEdge == Init /\ [][NextEdge]_vars
SpecConstruct == Init /\ [][NextConstruct]_vars
\* A caller that evaluates, commits the proposal it was just handed, and
\* closes trades of the active set.
LastProposal ==
    IF last # None /\ last[1].op = "eval" /\ last[1].decision.swing_open # None
    THEN {last[1].decision.swing_open[1]} ELSE {}
NextLifecycle ==
    \/ NextEvaluate
    \/ \E trade \in LastProposal : RecordSwingOpen(trade)
    \/ \E trade_id \in IdsOf(active) : RecordSwingClose(trade_id)
\* A caller that evaluates, and commits what it was just handed, or closes a
\* stored trade, through a _save_active_trades that may fail half way; a
\* second process evaluates in between.
NextRead ==
    \/ NextEvaluate
    \/ \E trade \in LastProposal : RecordSwingOpenBegin(trade)
    \/ \E trade_id \in IdsOf(active) : RecordSwingCloseBegin(trade_id)
    \/ SaveEnd
    \/ SaveCrash
SpecRead == Init /\ [][NextRead]_vars

SpecLifecycle == Init /\ [][NextLifecycle]_vars
\* The replay runs against the durable files as the live ticks, and a caller
\* closing trades by hand, left them.
NextDurable == NextLive \/ \E trade_id \in Ids : RecordSwingClose(trade_id)
SpecBacktest == Init /\ [][(bt.phase = "idle" /\ NextDurable) \/ NextBacktest]_vars

(***************************************************************************)
(* Properties                                                              *)
(***************************************************************************)
Ran(op) == last # None /\ last[1].op = op
OpenCount(act) == Cardinality({i \in 1..Len(act) : act[i].status = "open"})
WithoutId(act, trade_id) ==
    LET Other(tr) == tr.trade_id # trade_id IN SelectSeq(act, Other)

\* C1 (budget conservation): the cumulative USD spent on DCA buys, by the
\* backtest replayer and by the live ticks, never exceeds budget_usd.
C1_BudgetConservation == bt.dca_spent <= BudgetUsd /\ live.dca_spent <= BudgetUsd

\* C2 (minimum spacing): no DCA buy of one StrategyManager instance is executed
\* less than min_interval_hours after the previous one.
C2_MinimumSpacing ==
    Ran("bar") /\ last[1].dca_filled /\ last[1].dca_gap # None
        => last[1].dca_gap[1] >= MinIntervalHours

\* C3 (at most one open swing): after any sequence of evaluate_hybrid,
\* record_swing_open and record_swing_close calls from an empty active set,
\* the active set holds at most one entry with status "open".
C3_AtMostOneOpen == OpenCount(active) <= 1

\* The drawdown of C4, (initial_cash - (cash + btc * price)) / initial_cash * 100,
\* compared with max_drawdown_pct, for initial_cash > 0.
DrawdownAbove(pf, price) ==
    100 * (pf.initial_cash - (pf.cash_usd + (pf.btc * price) \div BtcScale))
        > MaxDrawdownPct * pf.initial_cash

\* C4 (drawdown pause): evaluate_hybrid returns risk_pause = true exactly on
\* the ticks whose drawdown is strictly above max_drawdown_pct, and false at
\* or below it (the portfolio snapshot having a positive initial_cash).
C4_DrawdownPause ==
    Ran("eval") /\ portfolio.exists /\ portfolio.initial_cash > 0
        => (last[1].decision.risk_pause <=> DrawdownAbove(portfolio, last[1].price))

\* C4 witness: a call paused by a drawdown above the threshold.
C4_Witness ==
    /\ Ran("eval") /\ portfolio.exists /\ portfolio.initial_cash > 0
    /\ last[1].decision.risk_pause
    /\ DrawdownAbove(portfolio, last[1].price)

\* C5 (one-shot alert): every run of consecutive paused ticks has sent exactly
\* one risk alert, on the long-lived manager, in the backtest and on the live
\* path (one run_once per tick).
C5_OneShotAlert ==
    /\ Ran("eval") /\ last[1].decision.risk_pause => api_alerts = 1
    /\ Ran("bar") /\ last[1].decision.risk_pause => bt.alerts = 1
    /\ Ran("live") /\ last[1].decision.risk_pause => live.alerts = 1

\* C6 (pause suppression): a paused tick returns dca.should_buy = false and
\* swing_open = None, and neither the backtest replayer nor run_once buys on it.
C6_PauseSuppression ==
    (Ran("live") \/ Ran("bar")) /\ last[1].decision.risk_pause
        => /\ ~last[1].decision.dca.should_buy
           /\ last[1].decision.swing_open = None
           /\ ~last[1].dca_filled
           /\ ~last[1].swing_filled

\* C6 witness: a paused bar on which the DCA drop rule and the swing-open
\* guard would both have fired (the paused path leaves the tracked previous
\* price as it was before the call).
C6_Witness ==
    /\ Ran("bar") /\ last[1].decision.risk_pause
    /\ bt.m.last_close_price # None
    /\ ShouldBuy(bt.m.dca, last[1].price, bt.m.last_close_price[1]).should_buy
    /\ bt.cash >= DcaAmountUsd
    /\ SwingGuard(active, last[1].atr, last[1].ov)

\* swing_open of two bundles: both absent, or both present and equal in every
\* field but the trade_id.
SameProposal(a, b) ==
    \/ a = None /\ b = None
    \/ a # None /\ b # None /\ [a[1] EXCEPT !.trade_id = 0] = [b[1] EXCEPT !.trade_id = 0]

C8_RoundTripClose ==
    Ran("close") /\ last[1].reopens # None => active = last[1].reopens[1]

\* C8 as amended: the round trip restores S whenever S holds no entry with
\* T's trade_id.
C8_RoundTripCloseFreshId ==
    Ran("close") /\ last[1].reopens # None
                 /\ last[1].trade_id \notin IdsOf(last[1].reopens[1])
        => active = last[1].reopens[1]

\* C8 witness: a round trip over a non-empty S without T's id.
C8_Witness ==
    /\ Ran("close") /\ last[1].reopens # None
    /\ last[1].reopens[1] # <<>>
    /\ last[1].trade_id \notin IdsOf(last[1].reopens[1])

\* C9 (close): record_swing_close(trade_id) leaves exactly the entries with
\* another id, in order; with no entry of that id the set is unchanged; and a
\* second call with the same id changes nothing more.
C9_CloseRemovesId ==
    Ran("close")
        => /\ active = WithoutId(last[1].before, last[1].trade_id)
           /\ last[1].trade_id \notin IdsOf(active)
           /\ last[1].trade_id \notin IdsOf(last[1].before) => active = last[1].before
           /\ RecordSwingCloseList(active, last[1].trade_id) = active

\* C9 witness: a close of an id that a non-empty active set does not hold.
C9_Witness ==
    /\ Ran("close") /\ last[1].before # <<>>
    /\ last[1].trade_id \notin IdsOf(last[1].before)

\* C10 (commit retry): record_swing_open re-issued with a trade the active set
\* already holds leaves the active set as it was.
C10_OpenIdempotent ==
    Ran("open") /\ last[1].trade.trade_id \in IdsOf(last[1].before)
        => active = last[1].before

\* C11 (evaluation is read-only): an evaluate_hybrid call, paused or not,
\* leaves the active-trade file and the portfolio snapshot as they were, and
\* the active set changes only in a step that runs record_swing_open or
\* record_swing_close (directly, or inside run_once).
C11_EvaluationReadOnly ==
    [][/\ (last' # None /\ last'[1].op = "eval")
            => (active' = active /\ file' = file /\ portfolio' = portfolio)
       /\ active' # active
            => (last' # None /\ last'[1].op \in {"open", "close", "live"})]_vars

\* C11 witness: an unpaused evaluation that reported a stopped trade, the
\* trade still being in the active set.
C11_Witness ==
    /\ Ran("eval") /\ ~last[1].decision.risk_pause
    /\ last[1].decision.swing_closures # <<>>
    /\ \A i \in 1..Len(last[1].decision.swing_closures) :
           last[1].decision.swing_closures[i].trade_id \in IdsOf(active)

\* C12 (atomic persistence): a reader that loads the active set while a
\* commit is writing it sees the complete set before the write or the
\* complete set after it.
C12_AtomicPersistence ==
    Ran("load") /\ last[1].writing # None
        => last[1].seen \in {last[1].writing[1].before, last[1].writing[1].target}

\* C13 (crash safety): after a crash or a failed write inside
\* record_swing_open or record_swing_close the durable active set is the set
\* before the call or the set the call meant to write.
C13_CrashSafety ==
    Ran("crash") => active \in {last[1].before, last[1].target}

\* The stop of C14: price <= P - k * A for a trade entered at P with ATR A.
AtOrBelowStop(price, tr) ==
    10 * price <= 10 * tr.entry_price - AtrKTenths * tr.atr_value

\* C14 (swing lifecycle): every unpaused evaluation returns in swing_closures
\* exactly the committed open trades whose stop P - k * A is at or above the
\* price; after record_swing_close(trade_id) no entry with the id is left,
\* and the active set is empty if it held that trade only.
C14_SwingLifecycle ==
    /\ Ran("eval") /\ ~last[1].decision.risk_pause
         => /\ \A i \in 1..Len(active) :
                  (\E j \in 1..Len(last[1].decision.swing_closures) :
                       last[1].decision.swing_closures[j] = active[i])
                  <=> (active[i].status = "open" /\ AtOrBelowStop(last[1].price, active[i]))
            /\ \A j \in 1..Len(last[1].decision.swing_closures) :
                  \E i \in 1..Len(active) : active[i] = last[1].decision.swing_closures[j]
    /\ Ran("close")
         => /\ last[1].trade_id \notin IdsOf(active)
            /\ IdsOf(last[1].before) \subseteq {last[1].trade_id} => active = <<>>

\* C14 witness: an evaluation that returned a committed trade as stopped.
C14_Witness ==
    /\ Ran("eval") /\ ~last[1].decision.risk_pause
    /\ last[1].decision.swing_closures # <<>>
    /\ AtOrBelowStop(last[1].price, last[1].decision.swing_closures[1])

\* C15 (swing proposal): an unpaused evaluation returns a swing_open exactly
\* when the mode is hybrid, enable_swing is set, atr_value > 0 and no active
\* entry is open; the proposal is pending, entered at the current price, with
\* stop_loss = current_price - atr_k * atr_value and
\* btc_amount = amount_usd / current_price.
C15_SwingProposal ==
    Ran("eval") /\ ~last[1].decision.risk_pause
        => LET open == last[1].decision.swing_open IN
           /\ open # None <=> /\ TradingMode = "hybrid"
                              /\ last[1].ov.enable_swing
                              /\ last[1].atr > 0
                              /\ OpenCount(active) = 0
           /\ open # None
                => /\ open[1].status = "pending"
                   /\ open[1].entry_price = last[1].price
                   /\ 10 * open[1].stop_loss = 10 * last[1].price - AtrKTenths * last[1].atr
                   /\ open[1].amount_usd = DcaAmountUsd
                   /\ open[1].btc_amount * last[1].price = open[1].amount_usd * BtcScale

\* C15 witness: an unpaused evaluation that returned a proposal.
C15_Witness ==
    /\ Ran("eval") /\ ~last[1].decision.risk_pause
    /\ last[1].decision.swing_open # None

\* C16 (closing is always allowed): on a paused tick every open trade whose
\* stop_loss is at or above the current price is reported in swing_closures.
C16_PausedClosures ==
    (Ran("eval") \/ Ran("live")) /\ last[1].decision.risk_pause
        => \A i \in 1..Len(active) :
               (active[i].status = "open" /\ last[1].price <= active[i].stop_loss)
                   => \E j \in 1..Len(last[1].decision.swing_closures) :
                          last[1].decision.swing_closures[j] = active[i]

\* C17 (previous-price bookkeeping): every evaluation, paused or not, leaves
\* the manager's tracked previous price at the price just evaluated.
C17_PausedPriceTracking ==
    Ran("eval") => mgr.last_close_price = Some(last[1].price)

\* C18 (non-negativity): cash and BTC are never negative, in the portfolio
\* file of the paper broker and in the ledger of the backtest replayer.
C18_NonNegative ==
    /\ portfolio.cash_usd >= 0 /\ portfolio.btc >= 0
    /\ bt.cash >= 0 /\ bt.btc >= 0

\* C18 witness: a live tick whose swing buy the broker rejected for lack of
\* cash.
C18_Witness ==
    /\ Ran("live") /\ last[1].raised
    /\ last[1].decision.swing_open # None
    /\ portfolio.cash_usd < last[1].decision.swing_open[1].amount_usd
    /\ portfolio.btc > 0

C20_BacktestIsolation ==
    [][bt' # bt => (active' = active /\ file' = file /\ portfolio' = portfolio)]_vars

\* C20 witness: a bar whose ledger sold a stopped trade of the live
\* active-trade file.
C20_Witness ==
    /\ Ran("bar") /\ last[1].sold > 0
    /\ active # <<>> /\ portfolio.exists

\* C21 (backtest swing commit): the bar after a bar that logged a SWING
\* trade, that trade not having been closed, logs no further SWING trade.
C21_BacktestSwingCommit ==
    [][(Ran("bar") /\ last[1].swing_filled /\ last' # None /\ last'[1].op = "bar")
          => ~last'[1].swing_filled]_vars

\* C22 (live/backtest reproducibility): on every tick of a common tick
\* sequence run_once and the replayer reach the same decision (trade ids
\* apart) and make the same fills.
C22_Reproducible ==
    Ran("pair")
        => /\ last[1].decision.risk_pause = last[1].bar_decision.risk_pause
           /\ last[1].decision.dca.should_buy = last[1].bar_decision.dca.should_buy
           /\ SameProposal(last[1].decision.swing_open, last[1].bar_decision.swing_open)
           /\ last[1].decision.swing_closures = last[1].bar_decision.swing_closures
           /\ last[1].dca_filled = last[1].bar_dca_filled
           /\ last[1].swing_filled = last[1].bar_swing_filled
           /\ last[1].sold = last[1].bar_sold

\* C23 (no fatal path): every evaluate_hybrid call and every backtest bar,
\* edge inputs included, ends with a decision carrying a reason and with no
\* exception raised.
Reasons ==
    {"No previous price data", "Insufficient budget", "Too soon since last purchase",
     "Price dropped", "Price drop below threshold", "Risk pause"}
C23_NoFatalPath ==
    (Ran("eval") \/ Ran("bar"))
        => /\ last[1].decision.dca.reason \in Reasons
           /\ ~last[1].raised

\* C24 (construction validation): constructing the engine with a budget of
\* zero or below is rejected by the constructor.
C24_BudgetValidated ==
    (Ran("new") /\ last[1].budget_usd <= 0) => last[1].raised

\* C25 (first tick): a tick evaluated by a manager that tracks no previous
\* price, and that is not paused, holds with the reason "No previous price
\* data", whatever the price.
C25_FirstTick ==
    (Ran("live") /\ ~last[1].decision.risk_pause)
        => last[1].decision.dca = Hold("No previous price data")

\* C26 (stops are eventually executed): in the live path, with ticks kept
\* running, an open trade whose stop has been hit by a tick is eventually
\* removed from the active set.
StopHitOpen(trade_id) ==
    /\ Ran("live")
    /\ \E i \in 1..Len(active) :
          /\ active[i].trade_id = trade_id
          /\ StopHit(last[1].price, active[i])
C26_StopsExecuted ==
    \A trade_id \in Ids : StopHitOpen(trade_id) ~> (trade_id \notin IdsOf(active))

\* C27 (stop check is zero-to-many): on a tick that is not paused the
\* closures returned are exactly the stored entries with status "open" whose
\* stop_loss is at or above the current price, in file order; an entry with
\* another status is never returned.
OpenAtOrAboveStop(tr) == tr.status = "open" /\ tr.stop_loss >= last[1].price
C27_StopCheck ==
    (Ran("eval") /\ ~last[1].decision.risk_pause)
        => /\ last[1].decision.swing_closures = SelectSeq(active, OpenAtOrAboveStop)
           /\ \A i \in 1..Len(last[1].decision.swing_closures) :
                 last[1].decision.swing_closures[i].status = "open"
C27_Witness ==
    /\ Ran("eval") /\ ~last[1].decision.risk_pause
    /\ Len(last[1].decision.swing_closures) = 1
    /\ \E i \in 1..Len(active) :
          active[i].status # "open" /\ active[i].stop_loss >= last[1].price

\* C28 (DCA threshold rule): with a previous price above 0 and the budget
\* and interval gates passed, should_buy answers buy exactly when the drop
\* from the previous price, in percent, is at least drop_percent; a price
\* equal to or above the previous one never buys.
C28_ThresholdRule ==
    (/\ Ran("should_buy")
     /\ last[1].previous_price > 0
     /\ BudgetGate(last[1].dca) /\ IntervalGate(last[1].dca))
        => /\ last[1].decision.should_buy
                <=> (last[1].previous_price - last[1].current_price) * 100
                        >= DcaDropPercent * last[1].previous_price
           /\ last[1].current_price >= last[1].previous_price
                => ~last[1].decision.should_buy
C28_Witness ==
    /\ Ran("should_buy")
    /\ last[1].previous_price > 0
    /\ BudgetGate(last[1].dca) /\ IntervalGate(last[1].dca)
    /\ (last[1].previous_price - last[1].current_price) * 100
           = DcaDropPercent * last[1].previous_price
    /\ last[1].decision.should_buy

\* C29 (read fail-open): an evaluation that finds the active-trade file
\* missing or cut off raises nothing, reports no closures and decides on a
\* swing proposal as if no swing trade were open.
C29_ReadFailOpen ==
    (Ran("eval") /\ file \in {"missing", "partial"})
        => /\ ~last[1].raised
           /\ LoadActiveTrades(file, active).trades = <<>>
           /\ last[1].decision.swing_closures = <<>>
           /\ ~last[1].decision.risk_pause
                => (last[1].decision.swing_open # None
                       <=> (last[1].ov.enable_swing /\ last[1].atr > 0))
\* C29 witness: an evaluation over a file that a write of a list with an
\* open trade has cut off, which proposes a new swing trade.
C29_Witness ==
    /\ Ran("eval") /\ file = "partial"
    /\ save # None /\ AnyOpen(save[1].before)
    /\ last[1].decision.swing_open # None

\* C30 (backtest independent of live state): every bar of run_backtest
\* reaches the decision - pause flag, DCA decision, swing proposal (trade id
\* apart) and closures - that the same replayer state reaches on the same bar
\* when no live file exists.
C30_LiveIndependence ==
    [][(last' # None /\ last'[1].op = "bar")
          => LET b == last'[1]
                 ref == EvaluateHybrid(bt.m, b.price, b.atr, b.dt, bt.ov, DcaAmountUsd,
                                       <<>>, NoPortfolio, FreshId).decision
             IN /\ b.decision.risk_pause = ref.risk_pause
                /\ b.decision.dca = ref.dca
                /\ SameProposal(b.decision.swing_open, ref.swing_open)
                /\ b.decision.swing_closures = ref.swing_closures]_vars

\* C31 (live DCA state persists): a live tick that is not paused and whose
\* price is below the price of the tick before it by at least the drop
\* threshold, with nothing of the budget spent yet, decides a DCA buy.
C31_LiveDcaPersists ==
    [][(/\ Ran("live")
        /\ last' # None /\ last'[1].op = "live"
        /\ ~last'[1].decision.risk_pause
        /\ live.dca_spent = 0
        /\ (last[1].price - last'[1].price) * 100 >= DcaDropPercent * last[1].price)
          => last'[1].decision.dca.should_buy]_vars

\* C32 (proposal and closures exclude each other): over an active set built
\* by record_swing_open and record_swing_close, a decision bundle that
\* reports closures carries no swing proposal.
C32_OpenExcludesClosures ==
    (Ran("eval") /\ last[1].decision.swing_closures # <<>>)
        => last[1].decision.swing_open = None
\* C32 witness: closures reported on a call with swing enabled and a
\* positive ATR, where only the open trade stands against a proposal.
C32_Witness ==
    /\ Ran("eval") /\ last[1].decision.swing_closures # <<>>
    /\ last[1].ov.enable_swing /\ last[1].atr > 0

\* C33 (pending is never durable): every entry of the durable active set
\* has status "open", every proposal the caller holds has status "pending",
\* and record_swing_open stores the trade with status "open" while the
\* caller's proposal is after the call what it was before.
C33_PendingNeverDurable ==
    /\ \A i \in 1..Len(active) : active[i].status = "open"
    /\ \A t \in pending : t.status = "pending"
    /\ Ran("open")
         => /\ last[1].caller = last[1].trade
            /\ last[1].caller.status = "pending"
            /\ active = Append(last[1].before, [last[1].trade EXCEPT !.status = "open"])
\* C33 witness: record_swing_open has stored a proposal the caller still holds.
C33_Witness ==
    /\ Ran("open") /\ last[1].trade \in pending
    /\ \E i \in 1..Len(active) : active[i].trade_id = last[1].trade.trade_id

\* C34 (live fill/commit ordering): a live tick adds a trade to the active
\* set only with its buy filled (the cash paid), removes trades only with
\* their sells filled (the BTC delivered), and a buy or sell that raises
\* leaves the active set as the fills before it left it.
RECURSIVE SumBtc(_)
SumBtc(trades) == IF trades = <<>> THEN 0 ELSE Head(trades).btc_amount + SumBtc(Tail(trades))
C34_FillBeforeCommit ==
    [][(last' # None /\ last'[1].op = "live")
          => LET b == last'[1]
                 pf0 == SetInitialCash(portfolio, BudgetUsd)
                 Added(tr) == tr.trade_id \notin IdsOf(active)
                 Removed(tr) == tr.trade_id \notin IdsOf(active')
                 added == SelectSeq(active', Added)
                 removed == SelectSeq(active, Removed)
                 dca_paid == IF b.dca_filled THEN DcaAmountUsd ELSE 0
             IN /\ added # <<>>
                     => /\ Len(added) = 1 /\ b.swing_filled /\ ~b.raised
                        /\ portfolio'.cash_usd
                              = pf0.cash_usd - dca_paid - added[1].amount_usd
                /\ removed # <<>>
                     => /\ Len(removed) = b.sold
                        /\ portfolio'.btc = pf0.btc - SumBtc(removed)
                /\ (b.raised /\ b.sold = 0) => active' = active]_vars
\* C34 witness: a live tick whose swing buy raised and whose active set holds
\* no trade with the proposed id.
C34_Witness ==
    /\ Ran("live") /\ last[1].raised /\ last[1].decision.swing_open # None
    /\ last[1].decision.swing_open[1].trade_id \notin IdsOf(active)

\* C35 (the risk breaker fails open): an evaluation over a portfolio
\* snapshot that is missing, cannot be parsed or has initial_cash = 0 raises
\* nothing, is not paused, sends no alert, and decides on DCA and on a swing
\* proposal as an evaluation that is not paused does.
FailsOpen(pf) == ~pf.exists \/ pf.text # "json" \/ pf.initial_cash = 0
C35_RiskFailsOpen ==
    (Ran("eval") /\ FailsOpen(portfolio))
        => /\ ~last[1].raised
           /\ ~last[1].decision.risk_pause
           /\ ~last[1].alert /\ api_alerts = 0
           /\ last[1].decision.dca.reason # "Risk pause"
           /\ last[1].decision.swing_open # None
                <=> SwingGuard(active, last[1].atr, last[1].ov)
\* C35 witness: a swing proposed by an evaluation over a snapshot that
\* exists and either cannot be parsed or holds initial_cash = 0.
C35_Witness ==
    /\ Ran("eval") /\ portfolio.exists
    /\ portfolio.text # "json" \/ portfolio.initial_cash = 0
    /\ last[1].decision.swing_open # None

\* C36 (ATRStrategy lifecycle partition): every trade dict handed out is in
\* exactly one of active_trades, with status "open", and closed_trades, with
\* status "closed"; and a close_trade that fails leaves both lists and every
\* field of the trade as they were.
C36_LifecyclePartition ==
    /\ \A ref \in 1..Len(atr_strategy.objects) :
          LET trade == atr_strategy.objects[ref] IN
          \/ /\ InList(atr_strategy.active_trades, ref)
             /\ ~InList(atr_strategy.closed_trades, ref)
             /\ trade.status = "open"
          \/ /\ InList(atr_strategy.closed_trades, ref)
             /\ ~InList(atr_strategy.active_trades, ref)
             /\ trade.status = "closed"
    /\ (Ran("atr_close") /\ last[1].raised) => atr_strategy = last[1].before

====
